---- MODULE Spec2Model ----
(***************************************************************************)
(* A model of the OpenFold feature pipeline (openfold/features) and of the *)
(* feature builders and frame reconstruction of openfold/utils/feats.py.   *)
(*                                                                         *)
(* A tensor is a record [shape, data]: its shape and its elements in       *)
(* row-major order.  A tensor dictionary is a function from feature names  *)
(* to tensors.  A call that raises is the record Raise(e); a call that     *)
(* returns is Return(d).                                                   *)
(***************************************************************************)
EXTENDS Integers, Sequences, FiniteSets, TLC

VARIABLES
    config,     \* FeaturePipeline.config, the stored configuration
    config0,    \* the configuration the pipeline was constructed with
    last,       \* the last process_features call: its arguments and outcome
    runA,       \* first of two invocations on the same arguments
    runB,       \* second of two invocations on the same arguments
    fns,        \* the transform lists built from a configuration
    dg,         \* a distogram evaluation of build_template_pair_feat
    ens,        \* a map_fn evaluation over given per-index dictionaries
    fr          \* a torsion_angles_to_frames evaluation

vars == <<config, config0, last, runA, runB, fns, dg, ens, fr>>

Idle == [called |-> FALSE]

(***************************************************************************)
(* Bounds of the model.                                                    *)
(***************************************************************************)
MaxRes == 3          \* residues of an input, 1..MaxRes
MaxEnsemble == 2     \* mode_cfg.num_ensemble, 1..MaxEnsemble
MaxExtraMsa == 1     \* common_cfg.max_extra_msa, 0..MaxExtraMsa

Seeds == {0, 1}      \* values torch.Generator().seed() may return
Recycles == {1}      \* common_cfg.num_recycle
Modes == {"train", "eval"}
BatchModes == {"clamped", "unclamped"}

(***************************************************************************)
(* Tensors and dictionaries.                                               *)
(***************************************************************************)
\* (a function joined with the empty one is the same function, held by TLC
\* as a table of its values)
Tensor(shape, data) == [shape |-> <<>> \o shape, data |-> <<>> \o data]

Scalar(v) == Tensor(<<>>, <<v>>)

Vec(s) == Tensor(<<Len(s)>>, s)

Range(s) == {s[i] : i \in DOMAIN s}

EmptyDict == <<>>

Put(d, key, v) == (key :> v) @@ d

Restrict(d, keys) == [k \in DOMAIN d \cap keys |-> d[k]] @@ EmptyDict

Return(d) == [err |-> "", dict |-> d]

Raise(e) == [err |-> e, dict |-> EmptyDict]

\* torch.arange(n): 0, 1, ..., n-1
arange(n) == <<>> \o [j \in 1..n |-> j - 1]

\* x[None]: a unit axis in front of the others
IndexNone(x) == Tensor(<<1>> \o x.shape, x.data)

\* torch.stack(ts, dim=-1): a new last axis; element p of tensor i lands at
\* flat position p * N + i
stack_last(ts) ==
    LET N == Len(ts)
        M == Len(ts[1].data)
    IN  Tensor(Append(ts[1].shape, N),
               [q \in 1..(M * N) |-> ts[((q - 1) % N) + 1].data[((q - 1) \div N) + 1]])

\* The names bound at module level in input_pipeline.py: its imports and
\* its own functions.
ModuleGlobals ==
    {"partial", "torch", "data_transforms", "nonensembled_transform_fns",
     "ensembled_transform_fns", "process_tensors_from_config", "compose", "map_fn"}

(***************************************************************************)
(* Transforms.  A transform is [fn, n, feats]: its name (with a string     *)
(* argument, if any), its integer arguments and its feature-name argument. *)
(***************************************************************************)
Tf(name) == [fn |-> name, n |-> <<>>, feats |-> {}]

TfN(name, n) == [fn |-> name, n |-> n, feats |-> {}]

TfF(name, n, feats) == [fn |-> name, n |-> n, feats |-> feats]

FixedPrefix ==
    << Tf("cast_to_64bit_ints"),
       Tf("correct_msa_restypes"),
       Tf("add_distillation_flag(False)"),
       Tf("squeeze_features"),
       Tf("randomly_replace_msa_with_unknown(0.0)"),
       Tf("make_seq_mask"),
       Tf("make_msa_mask"),
       Tf("make_hhblits_profile") >>

TemplateFns ==
    << Tf("fix_templates_aatype"),
       Tf("make_template_mask"),
       Tf("make_pseudo_beta('template_')") >>

SupervisedFns ==
    << Tf("make_atom14_positions"),
       Tf("atom37_to_frames"),
       Tf("atom37_to_torsion_angles('')"),
       Tf("make_pseudo_beta('')"),
       Tf("get_backbone_frames"),
       Tf("get_chi_angles") >>

nonensembled_transform_fns_torsion_unguarded(common_cfg, mode_cfg) ==
    FixedPrefix
    \o (IF common_cfg.use_templates THEN TemplateFns ELSE <<>>)
    \o (IF common_cfg.use_template_torsion_angles
        THEN <<Tf("atom37_to_torsion_angles('template_')")>> ELSE <<>>)
    \o <<Tf("make_atom14_masks")>>
    \o (IF mode_cfg.supervised THEN SupervisedFns ELSE <<>>)

nonensembled_transform_fns(common_cfg, mode_cfg) ==
    LET t0 == FixedPrefix
        t1 == IF common_cfg.use_templates
              THEN t0 \o TemplateFns
                   \o (IF common_cfg.use_template_torsion_angles
                       THEN <<Tf("atom37_to_torsion_angles('template_')")>>
                       ELSE <<>>)
              ELSE t0
        t2 == t1 \o <<Tf("make_atom14_masks")>>
        t3 == IF mode_cfg.supervised THEN t2 \o SupervisedFns ELSE t2
    IN  t3

\* lines 63-76 with the two blocks exchanged
msa_stage_cluster_first(common_cfg, mode_cfg) ==
    (IF common_cfg.msa_cluster_features
     THEN <<Tf("nearest_neighbor_clusters"), Tf("summarize_clusters")>>
     ELSE <<>>)
    \o (IF common_cfg.has_masked_msa
        THEN <<TfN("make_masked_msa", <<mode_cfg.masked_msa_replace_fraction>>)>>
        ELSE <<>>)

\* lines 63-76: masked-MSA corruption, then clustering
msa_stage(common_cfg, mode_cfg) ==
    LET t2 == IF common_cfg.has_masked_msa
              THEN <<TfN("make_masked_msa", <<mode_cfg.masked_msa_replace_fraction>>)>>
              ELSE <<>>
        t3 == IF common_cfg.msa_cluster_features
              THEN t2 \o <<Tf("nearest_neighbor_clusters"), Tf("summarize_clusters")>>
              ELSE t2
    IN  t3

\* seed is the value torch.Generator().seed() returns at line 96; it is
\* drawn only in the fixed_size branch.
ensembled_transform_fns(common_cfg, mode_cfg, batch_mode, seed) ==
    LET pad_msa_clusters ==
            IF common_cfg.reduce_msa_clusters_by_max_templates
            THEN mode_cfg.max_msa_clusters - mode_cfg.max_templates
            ELSE mode_cfg.max_msa_clusters
        max_msa_clusters == pad_msa_clusters
        max_extra_msa == common_cfg.max_extra_msa
        t1 == <<TfN("sample_msa", <<max_msa_clusters>>)>>
        t3 == t1 \o msa_stage(common_cfg, mode_cfg)
        t4 == IF max_extra_msa # 0
              THEN Append(t3, TfN("crop_extra_msa", <<max_extra_msa>>))
              ELSE Append(t3, Tf("delete_extra_msa"))
        t5 == Append(t4, Tf("make_msa_feat"))
        crop_feats == common_cfg.feat
    IN  IF mode_cfg.fixed_size
        THEN t5 \o << TfF("select_feat", <<>>, crop_feats),
                      TfF("random_crop_to_size",
                          <<mode_cfg.crop_size[1], mode_cfg.max_templates, seed>>,
                          crop_feats),
                      TfF("make_fixed_size",
                          <<pad_msa_clusters, common_cfg.max_extra_msa,
                            mode_cfg.crop_size[1], mode_cfg.max_templates>>,
                          crop_feats) >>
        ELSE Append(t5, TfN("crop_templates", <<mode_cfg.max_templates>>))

(***************************************************************************)
(* What the transforms of data_transforms do to a dictionary, as far as    *)
(* the pipeline's keys and residue axis are concerned.                     *)
(***************************************************************************)
Min(a, b) == IF a < b THEN a ELSE b

\* the residue window [start, start + size) of a per-residue feature
CropResidues(x, start, size) ==
    Vec([j \in 1..size |-> x.data[start + j]])

\* zero-padding of a per-residue feature to size residues
PadResidues(x, size) ==
    Vec([j \in 1..size |-> IF j <= Len(x.data) THEN x.data[j] ELSE 0])

\* the features with a residue axis
ResidueKeys ==
    {"aatype", "seq_mask", "msa", "deletion_matrix", "template_aatype",
     "all_atom_positions"}

\* the crop starts at a position the seed decides, among those that leave
\* room for the crop
random_crop_to_size(d, crop_size, seed) ==
    IF "aatype" \notin DOMAIN d THEN d
    ELSE LET seq_length == Len(d["aatype"].data)
             num_res_crop_size == Min(seq_length, crop_size)
             n == seq_length - num_res_crop_size
             num_res_crop_start == seed % (n + 1)
         IN  [k \in DOMAIN d |->
                 IF k \in ResidueKeys
                 THEN CropResidues(d[k], num_res_crop_start, num_res_crop_size)
                 ELSE d[k]] @@ EmptyDict

make_fixed_size(d, crop_size) ==
    [k \in DOMAIN d |->
        IF k \in ResidueKeys THEN PadResidues(d[k], crop_size) ELSE d[k]] @@ EmptyDict

ApplyTransform(f, d) ==
    CASE f.fn = "make_seq_mask" ->
            IF "aatype" \in DOMAIN d
            THEN Put(d, "seq_mask", Vec([j \in 1..Len(d["aatype"].data) |-> 1]))
            ELSE d
      [] f.fn = "make_template_mask" -> Put(d, "template_mask", Scalar(1))
      [] f.fn = "make_pseudo_beta('template_')" ->
            Put(d, "template_pseudo_beta", Scalar(1))
      [] f.fn = "atom37_to_torsion_angles('template_')" ->
            Put(d, "template_torsion_angles_sin_cos", Scalar(1))
      [] f.fn = "select_feat" -> Restrict(d, f.feats)
      [] f.fn = "random_crop_to_size" -> random_crop_to_size(d, f.n[1], f.n[3])
      [] f.fn = "make_fixed_size" -> make_fixed_size(d, f.n[3])
      [] OTHER -> d

RECURSIVE compose(_, _)
compose(x, fs) ==
    IF fs = <<>> THEN x ELSE compose(ApplyTransform(Head(fs), x), Tail(fs))

(***************************************************************************)
(* input_pipeline.py: the ensembling controller.                           *)
(***************************************************************************)
\* wrap_ensemble_fn, a closure over common_cfg, mode_cfg and batch_mode;
\* seed is what this call's ensembled_transform_fns draws.
wrap_ensemble_fn(data, i, common_cfg, mode_cfg, batch_mode, seed) ==
    LET d == data
        fs == ensembled_transform_fns(common_cfg, mode_cfg, batch_mode, seed)
    IN  compose(Put(d, "ensemble_index", Scalar(i)), fs)

\* map_fn(fun, x); fun is given as the function from the elements of x to
\* the dictionaries it returns.  A key of ensembles[0] that a later
\* dictionary lacks raises KeyError at dict_i[feat]; torch.stack raises on
\* tensors of different shapes.
map_fn(fun, x) ==
    LET ensembles == <<>> \o [j \in 1..Len(x) |-> fun[x[j]]]
        features == DOMAIN ensembles[1]
        I == 1..Len(ensembles)
    IN  IF \E feat \in features, i \in I : feat \notin DOMAIN ensembles[i]
        THEN Raise("KeyError")
        ELSE IF \E feat \in features, i \in I :
                    ensembles[i][feat].shape # ensembles[1][feat].shape
        THEN Raise("RuntimeError")
        ELSE Return([feat \in features |->
                        stack_last([i \in I |-> ensembles[i][feat]])] @@ EmptyDict)

\* line 134: one batch per ensembling and recycling step
effective_num_ensemble(common_cfg, mode_cfg) ==
    IF common_cfg.resample_msa_in_recycling
    THEN mode_cfg.num_ensemble * (common_cfg.num_recycle + 1)
    ELSE mode_cfg.num_ensemble

\* line 140: tree.map_structure(lambda x: x[None], tensors_0); the name
\* tree is looked up among the module's globals when the line runs
unit_axis_branch(tensors_0) ==
    IF "tree" \in ModuleGlobals
    THEN Return([k \in DOMAIN tensors_0 |-> IndexNone(tensors_0[k])] @@ EmptyDict)
    ELSE Raise("NameError")

\* The number of times one call of process_tensors_from_config runs
\* wrap_ensemble_fn, each run drawing its own seed.
NumWraps(common_cfg, mode_cfg) ==
    LET n == effective_num_ensemble(common_cfg, mode_cfg)
    IN  IF n > 1 THEN n + 1 ELSE 1

\* seeds[1] is drawn by the call for tensors_0, seeds[x + 2] by the call
\* map_fn makes for element x.  The result carries, beside the outcome, the
\* output of the non-ensembled pass (base) and the ensemble indices
\* wrap_ensemble_fn was run with, in order (applied).
process_tensors_from_config(tensors, common_cfg, mode_cfg, batch_mode, seeds) ==
    LET base == compose(tensors, nonensembled_transform_fns(common_cfg, mode_cfg))
        tensors_0 == wrap_ensemble_fn(base, 0, common_cfg, mode_cfg, batch_mode, seeds[1])
        num_ensemble == effective_num_ensemble(common_cfg, mode_cfg)
        fun == [x \in 0..(num_ensemble - 1) |->
                   wrap_ensemble_fn(base, x, common_cfg, mode_cfg, batch_mode,
                                    seeds[x + 2])]
    IN  IF num_ensemble > 1
        THEN [ out |-> map_fn(fun, arange(num_ensemble)),
               base |-> base,
               applied |-> <<0>> \o arange(num_ensemble) ]
        ELSE [ out |-> unit_axis_branch(tensors_0),
               base |-> base,
               applied |-> <<0>> ]

(***************************************************************************)
(* feature_pipeline.py                                                     *)
(***************************************************************************)
np_to_tensor_dict(np_example, features) ==
    Restrict(np_example, {k \in DOMAIN np_example : k \in Range(features)})

\* copy.deepcopy(config): an object of its own with the same contents
deepcopy(c) == c

\* make_data_config without line 39's copy: cfg is config itself, and
\* what is written to cfg is written to the caller's configuration
make_data_config_no_copy(cfg_in, mode, num_res) ==
    LET cfg == cfg_in
        cfg1 == IF cfg[mode].crop_size = <<>>
                THEN [cfg EXCEPT ![mode].crop_size = <<num_res>>] ELSE cfg
        n1 == cfg1.common.unsupervised_features
        n2 == IF cfg1.common.use_templates
              THEN n1 \o cfg1.common.template_features ELSE n1
        n3 == IF cfg1[mode].supervised
              THEN n2 \o cfg1.common.supervised_features ELSE n2
        cfg2 == [cfg1 EXCEPT !.common.unsupervised_features = n3]
    IN  [cfg |-> cfg2, feature_names |-> n3, config |-> cfg2]

\* The result: the returned pair (cfg, feature_names), and the caller's
\* configuration object as the call leaves it (config).  feature_names is
\* the list object cfg.common.unsupervised_features, which += extends in
\* place.
make_data_config(cfg_in, mode, num_res) ==
    LET cfg == deepcopy(cfg_in)
        cfg1 == IF cfg[mode].crop_size = <<>>
                THEN [cfg EXCEPT ![mode].crop_size = <<num_res>>] ELSE cfg
        n1 == cfg1.common.unsupervised_features
        n2 == IF cfg1.common.use_templates
              THEN n1 \o cfg1.common.template_features ELSE n1
        n3 == IF cfg1[mode].supervised
              THEN n2 \o cfg1.common.supervised_features ELSE n2
        cfg2 == [cfg1 EXCEPT !.common.unsupervised_features = n3]
    IN  [cfg |-> cfg2, feature_names |-> n3, config |-> cfg_in]

np_example_to_features(np_example_in, cfg_in, mode, batch_mode, seeds) ==
    LET num_res == np_example_in["seq_length"].data[1]
        mdc == make_data_config(cfg_in, mode, num_res)
        cfg == mdc.cfg
        feature_names == mdc.feature_names
        e1 == IF "deletion_matrix_int" \in DOMAIN np_example_in
              THEN Put(Restrict(np_example_in,
                                DOMAIN np_example_in \ {"deletion_matrix_int"}),
                       "deletion_matrix", np_example_in["deletion_matrix_int"])
              ELSE np_example_in
        e2 == IF batch_mode = "clamped"
              THEN Put(e1, "use_clamped_fape", Scalar(1))
              ELSE IF batch_mode = "unclamped"
              THEN Put(e1, "use_clamped_fape", Scalar(0))
              ELSE e1
        tensor_dict == np_to_tensor_dict(e2, feature_names)
        p == process_tensors_from_config(
                 tensor_dict, cfg.common, cfg[mode], batch_mode, seeds)
    IN  [ out |-> p.out, base |-> p.base, applied |-> p.applied,
          cfg |-> cfg, feature_names |-> feature_names, config |-> mdc.config ]

(***************************************************************************)
(* Inputs.                                                                 *)
(***************************************************************************)
\* a raw feature dictionary of n residues
RawExample(n, extra) ==
    Restrict(
        [k \in {"seq_length", "aatype", "msa", "template_aatype",
                "all_atom_positions", "deletion_matrix_int"} |->
            CASE k = "seq_length" -> Vec(<<n>>)
              [] k = "aatype" -> Vec([j \in 1..n |-> j])
              [] OTHER -> Vec([j \in 1..n |-> 0])],
        {"seq_length", "aatype", "msa"} \cup extra)

RawExamples ==
    {RawExample(n, extra) :
        n \in 1..MaxRes,
        extra \in {{}, {"template_aatype", "deletion_matrix_int"}}}

ModeCfg(crop_size, supervised, fixed_size, num_ensemble) ==
    [ crop_size |-> crop_size, supervised |-> supervised,
      fixed_size |-> fixed_size, max_msa_clusters |-> 4, max_templates |-> 1,
      subsample_templates |-> FALSE, masked_msa_replace_fraction |-> 15,
      num_ensemble |-> num_ensemble ]

CommonCfg(use_templates, torsion, resample, num_recycle, clamp_unsup) ==
    [ use_templates |-> use_templates,
      use_template_torsion_angles |-> torsion,
      reduce_msa_clusters_by_max_templates |-> FALSE,
      max_extra_msa |-> 1,
      has_masked_msa |-> TRUE,
      msa_cluster_features |-> TRUE,
      resample_msa_in_recycling |-> resample,
      num_recycle |-> num_recycle,
      feat |-> {"aatype", "msa", "seq_mask", "use_clamped_fape",
                "template_aatype", "template_mask", "template_pseudo_beta"},
      unsupervised_features |->
          <<"aatype", "msa", "seq_length", "deletion_matrix">>
          \o (IF clamp_unsup THEN <<"use_clamped_fape">> ELSE <<>>),
      template_features |-> <<"template_aatype">>,
      supervised_features |->
          <<"all_atom_positions">>
          \o (IF clamp_unsup THEN <<>> ELSE <<"use_clamped_fape">>) ]

\* The configurations a FeaturePipeline is constructed with: training is
\* supervised, on crops of a fixed size, without ensembling; evaluation is
\* unsupervised, on whole inputs, with num_ensemble ensembles.
Configs ==
    { [ common |-> CommonCfg(ut, FALSE, rs, nr, cu),
        train |-> ModeCfg(cs, TRUE, TRUE, 1),
        eval |-> ModeCfg(cs, FALSE, FALSE, ne) ] :
        ut \in BOOLEAN, rs \in BOOLEAN, nr \in Recycles, cu \in BOOLEAN,
        cs \in {<<>>, <<2>>}, ne \in 1..MaxEnsemble }

SeedChoices(cfg, mode) ==
    LET k == NumWraps(cfg.common, cfg[mode])
    IN  IF cfg[mode].fixed_size THEN [1..k -> Seeds] ELSE {[j \in 1..k |-> 0]}

(***************************************************************************)
(* The pipeline object: construction, then any sequence of calls.          *)
(***************************************************************************)
Init ==
    /\ config \in Configs
    /\ config0 = config
    /\ last = Idle
    /\ runA = Idle /\ runB = Idle /\ fns = Idle
    /\ dg = Idle /\ ens = Idle /\ fr = Idle

\* FeaturePipeline.process_features
process_features(raw_features, mode, batch_mode) ==
    \E seeds \in SeedChoices(config, mode) :
        LET r == np_example_to_features(raw_features, config, mode, batch_mode, seeds)
        IN  /\ config' = r.config
            /\ last' = [ called |-> TRUE, raw_features |-> raw_features,
                         mode |-> mode, batch_mode |-> batch_mode,
                         seeds |-> seeds, r |-> r ]
            /\ UNCHANGED <<config0, runA, runB, fns, dg, ens, fr>>

Next ==
    \E raw_features \in RawExamples, mode \in Modes, batch_mode \in BatchModes :
        process_features(raw_features, mode, batch_mode)

Spec == Init /\ [][Next]_vars

\* The pipelines that resample the MSA in recycling: every call stacks at
\* least two ensembles.
InitResample ==
    /\ Init
    /\ config.common.resample_msa_in_recycling
    /\ config.common.num_recycle > 0

SpecResample == InitResample /\ [][Next]_vars

(***************************************************************************)
(* Claims about the pipeline object.                                       *)
(***************************************************************************)
\* element i (from 0) of each position along the last axis, of size N
SliceLast(t, i, N) ==
    Tensor(SubSeq(t.shape, 1, Len(t.shape) - 1),
           [q \in 1..(Len(t.data) \div N) |-> t.data[(q - 1) * N + i + 1]])

Count(s, v) == Cardinality({j \in DOMAIN s : s[j] = v})

LastN == effective_num_ensemble(last.r.cfg.common, last.r.cfg[last.mode])

\* the application of the ensembled list for index i that the last call's
\* output is built from
LastWrap(i) ==
    wrap_ensemble_fn(last.r.base, i, last.r.cfg.common, last.r.cfg[last.mode],
                     last.batch_mode,
                     last.seeds[IF LastN > 1 THEN i + 2 ELSE 1])

TemplateKeys ==
    {"template_aatype", "template_mask", "template_pseudo_beta",
     "template_torsion_angles_sin_cos"}

\* C1: a call applies the ensembled list exactly once for each ensemble
\* index in [0, N), N the effective number of ensembles, and to nothing
\* else; it returns a dictionary, and slice i along the new axis of every
\* output feature is the application for index i (which carries
\* ensemble_index = i from before its first transform).
C1_OncePerIndex ==
    last.called =>
        /\ Len(last.r.applied) = LastN
        /\ \A i \in 0..(LastN - 1) : Count(last.r.applied, i) = 1
        /\ last.r.out.err = ""
        /\ \A k \in DOMAIN last.r.out.dict : \A i \in 0..(LastN - 1) :
               /\ k \in DOMAIN LastWrap(i)
               /\ SliceLast(last.r.out.dict[k], i, LastN) = LastWrap(i)[k]

\* C2: with an effective num_ensemble of 1 the call returns, for every
\* feature, the tensor of the single application (index 0) with one
\* unit-length axis added in the trailing position.
C2_UnitTrailingAxis ==
    (last.called /\ LastN = 1) =>
        /\ last.r.out.err = ""
        /\ DOMAIN last.r.out.dict = DOMAIN LastWrap(0)
        /\ \A k \in DOMAIN last.r.out.dict :
               last.r.out.dict[k] =
                   Tensor(Append(LastWrap(0)[k].shape, 1), LastWrap(0)[k].data)

\* C6: with use_templates = False the output dictionary holds
\* use_clamped_fape, 0.0 for batch_mode unclamped and 1.0 for clamped, and
\* no key with the template prefix.
C6_ClampFlagNoTemplates ==
    (last.called /\ ~config.common.use_templates) =>
        /\ last.r.out.err = ""
        /\ "use_clamped_fape" \in DOMAIN last.r.out.dict
        /\ \A v \in Range(last.r.out.dict["use_clamped_fape"].data) :
               v = (IF last.batch_mode = "unclamped" THEN 0 ELSE 1)
        /\ DOMAIN last.r.out.dict \cap TemplateKeys = {}

\* the feature names a call in mode m selects under configuration c
SelectedNames(c, m) ==
    c.common.unsupervised_features
    \o (IF c.common.use_templates THEN c.common.template_features ELSE <<>>)
    \o (IF c[m].supervised THEN c.common.supervised_features ELSE <<>>)

\* C10: after any sequence of calls the stored configuration is the one
\* the pipeline was constructed with; a call under an unset crop_size
\* crops to its own input's residue count, and every call selects the
\* feature names a first call would.
C10_ConfigUnchanged ==
    /\ config = config0
    /\ last.called =>
          /\ config0[last.mode].crop_size = <<>> =>
                last.r.cfg[last.mode].crop_size =
                    <<last.raw_features["seq_length"].data[1]>>
          /\ last.r.feature_names = SelectedNames(config0, last.mode)

\* a call under an unset crop_size, whose feature list was extended
C10_Witness ==
    /\ last.called
    /\ config0[last.mode].crop_size = <<>>
    /\ Len(last.r.feature_names) > Len(config0.common.unsupervised_features)
    /\ last.raw_features["seq_length"].data[1] = MaxRes

(***************************************************************************)
(* The transform lists, built from every combination of the options they   *)
(* read.                                                                   *)
(***************************************************************************)
ListCommonCfgs ==
    { [ CommonCfg(ut, tor, FALSE, 1, FALSE) EXCEPT
            !.reduce_msa_clusters_by_max_templates = red,
            !.max_extra_msa = xm,
            !.has_masked_msa = mm,
            !.msa_cluster_features = cl ] :
        ut \in BOOLEAN, tor \in BOOLEAN, red \in BOOLEAN,
        xm \in 0..MaxExtraMsa, mm \in BOOLEAN, cl \in BOOLEAN }

ListModeCfgs ==
    { ModeCfg(<<2>>, sup, fx, 1) : sup \in BOOLEAN, fx \in BOOLEAN }

InitFns ==
    /\ fns \in { [called |-> FALSE, common_cfg |-> c, mode_cfg |-> m] :
                    c \in ListCommonCfgs, m \in ListModeCfgs }
    /\ config = Idle /\ config0 = Idle /\ last = Idle
    /\ runA = Idle /\ runB = Idle
    /\ dg = Idle /\ ens = Idle /\ fr = Idle

build_nonensembled ==
    /\ fns' = [ called |-> TRUE, kind |-> "nonensembled",
                common_cfg |-> fns.common_cfg, mode_cfg |-> fns.mode_cfg,
                list |-> nonensembled_transform_fns(fns.common_cfg, fns.mode_cfg) ]
    /\ UNCHANGED <<config, config0, last, runA, runB, dg, ens, fr>>

build_ensembled ==
    \E batch_mode \in BatchModes, seed \in Seeds :
        /\ fns' = [ called |-> TRUE, kind |-> "ensembled",
                    common_cfg |-> fns.common_cfg, mode_cfg |-> fns.mode_cfg,
                    list |-> ensembled_transform_fns(
                                 fns.common_cfg, fns.mode_cfg, batch_mode, seed) ]
        /\ UNCHANGED <<config, config0, last, runA, runB, dg, ens, fr>>

NextFns == build_nonensembled \/ build_ensembled

SpecFns == InitFns /\ [][NextFns]_vars

Names(list) == [j \in DOMAIN list |-> list[j].fn]

Positions(list, name) == {j \in DOMAIN list : list[j].fn = name}

\* every occurrence of a comes before every occurrence of b
Before(list, a, b) ==
    \A i \in Positions(list, a), j \in Positions(list, b) : i < j

\* C3: the ensembled list starts with MSA sampling; with masked MSA and
\* clustering both configured, make_masked_msa, nearest_neighbor_clusters,
\* summarize_clusters and the extra-MSA crop or deletion occur in this
\* order; in no list does a clustering transform precede make_masked_msa.
C3_MaskedBeforeClustering ==
    (fns.called /\ fns.kind = "ensembled") =>
        LET L == fns.list
            c == fns.common_cfg
            extra == IF c.max_extra_msa # 0 THEN "crop_extra_msa" ELSE "delete_extra_msa"
        IN  /\ L[1].fn = "sample_msa"
            /\ Positions(L, "sample_msa") = {1}
            /\ (c.has_masked_msa /\ c.msa_cluster_features) =>
                  /\ Cardinality(Positions(L, "make_masked_msa")) = 1
                  /\ Cardinality(Positions(L, "nearest_neighbor_clusters")) = 1
                  /\ Cardinality(Positions(L, "summarize_clusters")) = 1
                  /\ Cardinality(Positions(L, extra)) = 1
                  /\ Before(L, "make_masked_msa", "nearest_neighbor_clusters")
                  /\ Before(L, "nearest_neighbor_clusters", "summarize_clusters")
                  /\ Before(L, "summarize_clusters", extra)
            /\ Before(L, "make_masked_msa", "nearest_neighbor_clusters")
            /\ Before(L, "make_masked_msa", "summarize_clusters")

C3_Witness ==
    /\ fns.called /\ fns.kind = "ensembled"
    /\ fns.common_cfg.has_masked_msa /\ fns.common_cfg.msa_cluster_features
    /\ fns.mode_cfg.fixed_size
    /\ "summarize_clusters" \in Range(Names(fns.list))

\* C4: the non-ensembled list is the eight-transform prefix, then the
\* template aatype fix, template mask and template pseudo-beta exactly
\* when use_templates is set (the template torsion angles after them
\* exactly when use_template_torsion_angles is set too), then atom14 masks
\* exactly once, then the six supervised transforms exactly when supervised
\* is set; template pseudo-beta and template torsion angles never come
\* before the template mask, and no template transform occurs without
\* use_templates.
C4_NonensembledList ==
    (fns.called /\ fns.kind = "nonensembled") =>
        LET L == fns.list
            c == fns.common_cfg
            m == fns.mode_cfg
            nt == IF c.use_templates
                  THEN (IF c.use_template_torsion_angles THEN 4 ELSE 3) ELSE 0
            tnames == <<"fix_templates_aatype", "make_template_mask",
                        "make_pseudo_beta('template_')",
                        "atom37_to_torsion_angles('template_')">>
            snames == <<"make_atom14_positions", "atom37_to_frames",
                        "atom37_to_torsion_angles('')", "make_pseudo_beta('')",
                        "get_backbone_frames", "get_chi_angles">>
        IN  /\ Len(L) = 8 + nt + 1 + (IF m.supervised THEN 6 ELSE 0)
            /\ SubSeq(Names(L), 1, 8) =
                  <<"cast_to_64bit_ints", "correct_msa_restypes",
                    "add_distillation_flag(False)", "squeeze_features",
                    "randomly_replace_msa_with_unknown(0.0)", "make_seq_mask",
                    "make_msa_mask", "make_hhblits_profile">>
            /\ SubSeq(Names(L), 9, 8 + nt) = SubSeq(tnames, 1, nt)
            /\ L[8 + nt + 1].fn = "make_atom14_masks"
            /\ Positions(L, "make_atom14_masks") = {8 + nt + 1}
            /\ SubSeq(Names(L), 8 + nt + 2, Len(L)) =
                  (IF m.supervised THEN snames ELSE <<>>)
            /\ Before(L, "make_template_mask", "make_pseudo_beta('template_')")
            /\ Before(L, "make_template_mask", "atom37_to_torsion_angles('template_')")
            /\ ~c.use_templates => Range(Names(L)) \cap Range(tnames) = {}

C4_Witness ==
    /\ fns.called /\ fns.kind = "nonensembled"
    /\ fns.common_cfg.use_templates /\ fns.common_cfg.use_template_torsion_angles
    /\ fns.mode_cfg.supervised
    /\ "atom37_to_torsion_angles('template_')" \in Range(Names(fns.list))

(***************************************************************************)
(* Two invocations of the pipeline on the same arguments.                  *)
(***************************************************************************)
InitRepeat ==
    /\ config \in Configs
    /\ config0 = config
    /\ runA = Idle /\ runB = Idle
    /\ last = Idle /\ fns = Idle /\ dg = Idle /\ ens = Idle /\ fr = Idle

\* process_features(raw_features, mode, batch_mode), twice in a row
process_features_twice(raw_features, mode, batch_mode) ==
    /\ ~runA.called
    /\ \E seedsA \in SeedChoices(config, mode) :
           LET a == np_example_to_features(raw_features, config, mode, batch_mode, seedsA)
           IN  \E seedsB \in SeedChoices(a.config, mode) :
                   LET b == np_example_to_features(
                                raw_features, a.config, mode, batch_mode, seedsB)
                   IN  /\ runA' = [ called |-> TRUE, raw_features |-> raw_features,
                                    mode |-> mode, batch_mode |-> batch_mode,
                                    out |-> a.out ]
                       /\ runB' = [ called |-> TRUE, raw_features |-> raw_features,
                                    mode |-> mode, batch_mode |-> batch_mode,
                                    out |-> b.out ]
                       /\ config' = b.config
    /\ UNCHANGED <<config0, last, fns, dg, ens, fr>>

NextRepeat ==
    \E raw_features \in RawExamples, mode \in Modes, batch_mode \in BatchModes :
        process_features_twice(raw_features, mode, batch_mode)

SpecRepeat == InitRepeat /\ [][NextRepeat]_vars

\* C5: two invocations on the same input dictionary, with the same
\* configuration, mode and batch mode, produce the same output.
C5_SameOutput ==
    runA.called => runA.out = runB.out

(***************************************************************************)
(* The distogram of build_template_pair_feat.  Lengths are in quarter      *)
(* angstroms and squared distances in sixteenths of a square angstrom, in  *)
(* which the bin edges of min_bin = 3.25, max_bin = 50.75, no_bins = 39    *)
(* and their squares are whole numbers.                                    *)
(***************************************************************************)
MinBin4 == 13            \* min_bin = 3.25
MaxBin4 == 203           \* max_bin = 50.75
NoBins == 39             \* no_bins
Inf16 == 1600000000      \* inf = 1e8
MaxCoord == 210          \* coordinates of a pseudo-beta atom, 0..MaxCoord

\* torch.linspace(min_bin, max_bin, no_bins)[k], k from 0
linspace(min_bin, max_bin, no_bins, k) ==
    min_bin + (k * (max_bin - min_bin)) \div (no_bins - 1)

\* lower[k], k from 0
lower(k) == linspace(MinBin4, MaxBin4, NoBins, k) * linspace(MinBin4, MaxBin4, NoBins, k)

\* upper[k], k from 0: torch.cat([lower[:-1], [inf]])
upper(k) == IF k < NoBins - 1 THEN lower(k) ELSE Inf16

SqDist(p, q) ==
    (p[1] - q[1]) * (p[1] - q[1]) + (p[2] - q[2]) * (p[2] - q[2])
    + (p[3] - q[3]) * (p[3] - q[3])

\* dgram[i][j][k] of lines 95-99, from the pseudo-beta positions tpb
distogram(tpb) ==
    [i \in DOMAIN tpb |-> [j \in DOMAIN tpb |->
        LET d == SqDist(tpb[i], tpb[j])
        IN  [k \in 0..(NoBins - 1) |->
                IF d > lower(k) /\ d < upper(k) THEN 1 ELSE 0]]]

InitDgram ==
    /\ dg \in { [called |-> FALSE, tpb |-> <<<<0, 0, 0>>, <<x, y, 0>>>>] :
                   x \in 0..MaxCoord, y \in {0, 1} }
    /\ config = Idle /\ config0 = Idle /\ last = Idle
    /\ runA = Idle /\ runB = Idle /\ fns = Idle /\ ens = Idle /\ fr = Idle

build_template_pair_feat ==
    /\ ~dg.called
    /\ dg' = [called |-> TRUE, tpb |-> dg.tpb, dgram |-> distogram(dg.tpb)]
    /\ UNCHANGED <<config, config0, last, runA, runB, fns, ens, fr>>

NextDgram == build_template_pair_feat

SpecDgram == InitDgram /\ [][NextDgram]_vars

\* C7: for every bin k below the last, bin k is inactive for a pair at
\* squared distance exactly lower[k] and active for a pair whose squared
\* distance lies above lower[k] and below lower[k+1]; the last bin is
\* active for every squared distance above its lower edge.
C7_BinEdges ==
    dg.called =>
        \A i \in DOMAIN dg.tpb, j \in DOMAIN dg.tpb :
            LET d == SqDist(dg.tpb[i], dg.tpb[j])
            IN  /\ \A k \in 0..(NoBins - 2) :
                       /\ d = lower(k) => dg.dgram[i][j][k] = 0
                       /\ (d > lower(k) /\ d < lower(k + 1)) => dg.dgram[i][j][k] = 1
                /\ d > lower(NoBins - 1) => dg.dgram[i][j][NoBins - 1] = 1

(***************************************************************************)
(* map_fn on per-index dictionaries of any key sets.                       *)
(***************************************************************************)
MaxStack == 3        \* dictionaries handed to map_fn, 1..MaxStack

\* the dictionaries one ensemble invocation may return: any keys among
\* "a" and "b", "a" a scalar or a vector
EnsembleDicts(i) ==
    { Restrict([k \in {"a", "b"} |-> IF k = "a" THEN va ELSE Scalar(i)], keys) :
         va \in {Scalar(i), Vec(<<i, i>>)}, keys \in SUBSET {"a", "b"} }

RECURSIVE DictLists(_)
DictLists(n) ==
    IF n = 0 THEN {<<>>}
    ELSE {Append(l, d) : l \in DictLists(n - 1), d \in EnsembleDicts(n - 1)}

InitMapFn ==
    /\ \E n \in 1..MaxStack :
           ens \in {[called |-> FALSE, dicts |-> l] : l \in DictLists(n)}
    /\ config = Idle /\ config0 = Idle /\ last = Idle
    /\ runA = Idle /\ runB = Idle /\ fns = Idle /\ dg = Idle /\ fr = Idle

call_map_fn ==
    /\ ~ens.called
    /\ ens' = [ called |-> TRUE, dicts |-> ens.dicts,
                out |-> map_fn([x \in 0..(Len(ens.dicts) - 1) |-> ens.dicts[x + 1]],
                               arange(Len(ens.dicts))) ]
    /\ UNCHANGED <<config, config0, last, runA, runB, fns, dg, fr>>

NextMapFn == call_map_fn

SpecMapFn == InitMapFn /\ [][NextMapFn]_vars

\* C8: when the per-index dictionaries differ in their key sets, map_fn
\* raises and returns no dictionary.
C8_KeySetsDiffer ==
    (ens.called /\ \E i, j \in DOMAIN ens.dicts :
                       DOMAIN ens.dicts[i] # DOMAIN ens.dicts[j])
        => ens.out.err # ""

(***************************************************************************)
(* torsion_angles_to_frames, for one residue.  A transform T is            *)
(* [rots, trans]: a 3x3 matrix and a 3-vector, with whole-number entries.  *)
(***************************************************************************)
Dot3(u, v) == u[1] * v[1] + u[2] * v[2] + u[3] * v[3]

Col3(m, j) == <<m[1][j], m[2][j], m[3][j]>>

rot_matmul(a, b) ==
    << <<Dot3(a[1], Col3(b, 1)), Dot3(a[1], Col3(b, 2)), Dot3(a[1], Col3(b, 3))>>,
       <<Dot3(a[2], Col3(b, 1)), Dot3(a[2], Col3(b, 2)), Dot3(a[2], Col3(b, 3))>>,
       <<Dot3(a[3], Col3(b, 1)), Dot3(a[3], Col3(b, 2)), Dot3(a[3], Col3(b, 3))>> >>

rot_vec_mul(r, v) == <<Dot3(r[1], v), Dot3(r[2], v), Dot3(r[3], v)>>

\* T(rots, trans); T(rots, None) has a zero translation
T(rots, trans) == [rots |-> rots, trans |-> trans]

NoTrans == <<0, 0, 0>>

\* a.compose(b)
T_compose(a, b) ==
    T(rot_matmul(a.rots, b.rots),
      LET rt == rot_vec_mul(a.rots, b.trans)
      IN  <<rt[1] + a.trans[1], rt[2] + a.trans[2], rt[3] + a.trans[3]>>)

\* T.from_4x4
T_from_4x4(m) ==
    T(<< <<m[1][1], m[1][2], m[1][3]>>,
         <<m[2][1], m[2][2], m[2][3]>>,
         <<m[3][1], m[3][2], m[3][3]>> >>,
      <<m[1][4], m[2][4], m[3][4]>>)

\* lines 237-241: the rotation about the x axis of one (sin, cos) pair
x_rotation(a) ==
    << <<1, 0, 0>>,
       <<0, a[2], -a[1]>>,
       <<0, a[1], a[2]>> >>

\* lines 247-262 with chi3 and chi4 composed against the chi1 frame
chi_chain_from_chi1(all_frames) ==
    LET chi1_frame_to_bb == all_frames[5]
        chi2_frame_to_bb == T_compose(chi1_frame_to_bb, all_frames[6])
        chi3_frame_to_bb == T_compose(chi1_frame_to_bb, all_frames[7])
        chi4_frame_to_bb == T_compose(chi1_frame_to_bb, all_frames[8])
    IN  SubSeq(all_frames, 1, 5)
        \o <<chi2_frame_to_bb, chi3_frame_to_bb, chi4_frame_to_bb>>

\* lines 247-262: all_frames_to_bb; group g of the code is element g + 1
chi_chain(all_frames) ==
    LET chi2_frame_to_frame == all_frames[6]
        chi3_frame_to_frame == all_frames[7]
        chi4_frame_to_frame == all_frames[8]
        chi1_frame_to_bb == all_frames[5]
        chi2_frame_to_bb == T_compose(chi1_frame_to_bb, chi2_frame_to_frame)
        chi3_frame_to_bb == T_compose(chi2_frame_to_bb, chi3_frame_to_frame)
        chi4_frame_to_bb == T_compose(chi3_frame_to_bb, chi4_frame_to_frame)
    IN  SubSeq(all_frames, 1, 5)
        \o <<chi2_frame_to_bb, chi3_frame_to_bb, chi4_frame_to_bb>>

torsion_angles_to_frames(t, alpha_in, aatype, rrgdf) ==
    LET default_4x4 == rrgdf[aatype]
        default_t == <<>> \o [k \in 1..8 |-> T_from_4x4(default_4x4[k])]
        bb_rot == <<0, 1>>
        alpha == <<bb_rot>> \o alpha_in
        all_rots == <<>> \o [k \in 1..8 |-> T(x_rotation(alpha[k]), NoTrans)]
        all_frames == <<>> \o [k \in 1..8 |-> T_compose(default_t[k], all_rots[k])]
        all_frames_to_bb == chi_chain(all_frames)
        all_frames_to_global ==
            <<>> \o [k \in 1..8 |-> T_compose(t, all_frames_to_bb[k])]
    IN  all_frames_to_global

Identity3 == << <<1, 0, 0>>, <<0, 1, 0>>, <<0, 0, 1>> >>

RotZ == << <<0, -1, 0>>, <<1, 0, 0>>, <<0, 0, 1>> >>

RotY == << <<0, 0, 1>>, <<0, 1, 0>>, <<-1, 0, 0>> >>

Hom(r, v) ==
    << <<r[1][1], r[1][2], r[1][3], v[1]>>,
       <<r[2][1], r[2][2], r[2][3], v[2]>>,
       <<r[3][1], r[3][2], r[3][3], v[3]>>,
       <<0, 0, 0, 1>> >>

\* a table of default frames for two residue types: rrgdf[aatype][k] is a
\* homogeneous 4x4 matrix
DefaultFrames ==
    [aa \in {0, 1} |->
        <<>> \o [k \in 1..8 |->
            Hom(IF (aa + k) % 3 = 0 THEN Identity3
                ELSE IF (aa + k) % 3 = 1 THEN RotZ ELSE RotY,
                <<k, aa, 1>>)]]

\* the (sin, cos) pairs of the quarter turns used as torsion angles
Angles == {<<0, 1>>, <<1, 0>>, <<0, -1>>}

BackboneFrames == {T(Identity3, NoTrans), T(RotZ, <<1, 2, 3>>)}

InitFrames ==
    /\ fr \in { [called |-> FALSE, t |-> t, alpha |-> alpha, aatype |-> aa] :
                   t \in BackboneFrames, alpha \in [1..7 -> Angles],
                   aa \in DOMAIN DefaultFrames }
    /\ config = Idle /\ config0 = Idle /\ last = Idle
    /\ runA = Idle /\ runB = Idle /\ fns = Idle /\ dg = Idle /\ ens = Idle

call_torsion_angles_to_frames ==
    /\ ~fr.called
    /\ fr' = [ called |-> TRUE, t |-> fr.t, alpha |-> fr.alpha, aatype |-> fr.aatype,
               out |-> torsion_angles_to_frames(
                           fr.t, fr.alpha, fr.aatype, DefaultFrames) ]
    /\ UNCHANGED <<config, config0, last, runA, runB, fns, dg, ens>>

NextFrames == call_torsion_angles_to_frames

SpecFrames == InitFrames /\ [][NextFrames]_vars

\* The claim in homogeneous coordinates, where composing transforms is
\* multiplying 4x4 matrices.
Col4(m, j) == <<m[1][j], m[2][j], m[3][j], m[4][j]>>

Dot4(u, v) == u[1] * v[1] + u[2] * v[2] + u[3] * v[3] + u[4] * v[4]

Mul4(a, b) ==
    <<>> \o [i \in 1..4 |-> <<>> \o [j \in 1..4 |-> Dot4(a[i], Col4(b, j))]]

To4x4(x) == Hom(x.rots, x.trans)

\* L[g]: default local frame g times the x rotation of angle slot g
\* (slot 0 the fixed sin = 0, cos = 1)
LocalFrame4(g) ==
    Mul4(DefaultFrames[fr.aatype][g + 1],
         Hom(x_rotation(IF g = 0 THEN <<0, 1>> ELSE fr.alpha[g]), NoTrans))

RECURSIVE FrameToBackbone4(_)
FrameToBackbone4(g) ==
    IF g <= 4 THEN LocalFrame4(g)
    ELSE Mul4(FrameToBackbone4(g - 1), LocalFrame4(g))

\* C9: the frame-to-backbone transform of groups 0 to 4 is L[g]; that of
\* groups 5, 6, 7 is the one of group g - 1 composed with L[g], so that of
\* group 7 is L[4] L[5] L[6] L[7]; each of the 8 results is composed on the
\* left with the backbone frame t.
C9_FrameChain ==
    fr.called =>
        /\ Len(fr.out) = 8
        /\ \A g \in 0..7 :
               To4x4(fr.out[g + 1]) = Mul4(To4x4(fr.t), FrameToBackbone4(g))
        /\ To4x4(fr.out[8]) =
               Mul4(To4x4(fr.t),
                    Mul4(Mul4(Mul4(LocalFrame4(4), LocalFrame4(5)), LocalFrame4(6)),
                         LocalFrame4(7)))

C9_Witness ==
    /\ fr.called
    /\ fr.t.rots # Identity3
    /\ \A g \in 4..7 : fr.alpha[g] # <<0, 1>>
    /\ fr.out[8] # fr.out[7]

====
